---- MODULE Spec2Model ----
(***************************************************************************)
(* Fire Prevention AI v3.5 (src/main.py): the key file and the AES-GCM     *)
(* layer, the encrypted audit log, the scorer on the shared device, the    *)
(* rule-based tier of fire_analysis_pipeline and the run_scan handler.     *)
(*                                                                         *)
(* Representation.  A Python str is a sequence of code points, a bytes     *)
(* object a sequence of 0..255, a base64 text a sequence of alphabet       *)
(* indices 0..63 with 64 standing for "=".  A float is kept exactly: the   *)
(* brightness as twice the mean gray level (brightness = gray2 / 510), the *)
(* voltage ratio as a fraction <<num, den>> with den > 0, a color-vector   *)
(* entry in halves (angles are then multiples of pi/2, and the amplitudes  *)
(* of the device are Gaussian integers over a power of sqrt 2).            *)
(***************************************************************************)
EXTENDS Integers, Sequences, FiniteSets, TLC

VARIABLES
    keyFile,    \* contents of the key file: NoFile, or a bytes sequence
    crypto,     \* FireAIApp.crypto.key, NoKey while no application runs
    photo,      \* FireAIApp.photo
    area,       \* FireAIApp.area
    rows,       \* the logs table of fire_ai_logs.db, in id order
    output,     \* what the output Text widget shows
    qml_dev,    \* state of the module-level device qml_dev
    event,      \* what the most recent handler did and showed
    returned,   \* history: the results of the run_scan calls that completed
    pc,         \* concurrent constructors: position in AESGCMCrypto.__init__
    inst,       \* cipher instances: the key each one holds
    fresh,      \* concurrent constructors: the key each generated
    blob,       \* round trip: the blob of the last encrypt
    plain,      \* round trip: the text encrypted, and the last decrypt's answer
    cin,        \* classifier: the inputs
    ctier,      \* classifier: the tier computed
    scores      \* scorer: the calls made so far, <<vector, score>>

vars == <<keyFile, crypto, photo, area, rows, output, qml_dev, event, returned,
          pc, inst, fresh, blob, plain, cin, ctier, scores>>

notApp == <<pc, inst, fresh, blob, plain, cin, ctier, scores>>

\* ------------------------------------------------------------------ bounds

MaxRows == 2
MaxCalls == 3

\* --------------------------------------------------------- program constants

KeyLen == 16
NonceLen == 12
TagLen == 16
Wires == 7
Layers == 5
Bins == 25
Side == 64

\* Values that are no bytes and no str: a sequence no bytes or str equals.
NoFile == <<-1>>           \* os.path.exists(key_path) is False
NoKey == <<-2>>            \* no AESGCMCrypto constructed
None == <<-3>>             \* Python's None
InvalidTag == <<-4>>       \* cryptography.exceptions.InvalidTag raised
DecodeError == <<-5>>      \* UnicodeDecodeError raised

\* ------------------------------------------------------------ text and bytes

Ascii ==
    <<" ", "!", "dquote", "#", "$", "%", "&", "'", "(", ")", "*", "+", ",", "-", ".", "/",
      "0", "1", "2", "3", "4", "5", "6", "7", "8", "9", ":", ";", "<", "=", ">", "?",
      "@", "A", "B", "C", "D", "E", "F", "G", "H", "I", "J", "K", "L", "M", "N", "O",
      "P", "Q", "R", "S", "T", "U", "V", "W", "X", "Y", "Z", "[", "bslash", "]", "^", "_",
      "btick", "a", "b", "c", "d", "e", "f", "g", "h", "i", "j", "k", "l", "m", "n", "o",
      "p", "q", "r", "s", "t", "u", "v", "w", "x", "y", "z", "{", "|", "}", "~">>

Ord(c) == 31 + (CHOOSE i \in DOMAIN Ascii : Ascii[i] = c)

\* A str literal, written one character per element.
Str(s) == [i \in DOMAIN s |-> Ord(s[i])]

\* Concatenation and sum of a sequence, by halves.
RECURSIVE FlatRange(_, _, _)
FlatRange(ss, lo, hi) ==
    IF lo > hi THEN <<>>
    ELSE IF lo = hi THEN ss[lo]
    ELSE FlatRange(ss, lo, (lo + hi) \div 2) \o FlatRange(ss, ((lo + hi) \div 2) + 1, hi)

Flatten(ss) == FlatRange(ss, 1, Len(ss))

RECURSIVE SumRange(_, _, _)
SumRange(s, lo, hi) ==
    IF lo > hi THEN 0
    ELSE IF lo = hi THEN s[lo]
    ELSE SumRange(s, lo, (lo + hi) \div 2) + SumRange(s, ((lo + hi) \div 2) + 1, hi)

SumSeq(s) == SumRange(s, 1, Len(s))

\* str.lower() on the code points the model uses.
Lower(s) == [i \in DOMAIN s |-> IF s[i] >= 65 /\ s[i] <= 90 THEN s[i] + 32 ELSE s[i]]

\* needle in hay
Contains(hay, needle) ==
    \E i \in 0..(Len(hay) - Len(needle)) :
        \A j \in 1..Len(needle) : hay[i + j] = needle[j]

IsSpace(c) == c = 32

RECURSIVE LStrip(_)
LStrip(s) == IF s # <<>> /\ IsSpace(Head(s)) THEN LStrip(Tail(s)) ELSE s

RECURSIVE RStrip(_)
RStrip(s) ==
    IF s # <<>> /\ IsSpace(s[Len(s)]) THEN RStrip(SubSeq(s, 1, Len(s) - 1)) ELSE s

\* str.strip()
Strip(s) == RStrip(LStrip(s))

\* str.split(sep) for a one-character separator
RECURSIVE Split(_, _)
Split(s, sep) ==
    IF \E i \in DOMAIN s : s[i] = sep
    THEN LET i == CHOOSE k \in DOMAIN s : s[k] = sep /\ \A m \in 1..(k - 1) : s[m] # sep
         IN  <<SubSeq(s, 1, i - 1)>> \o Split(SubSeq(s, i + 1, Len(s)), sep)
    ELSE <<s>>

\* str.encode(): UTF-8
Utf8Char(cp) ==
    IF cp < 128 THEN <<cp>>
    ELSE IF cp < 2048 THEN <<192 + (cp \div 64), 128 + (cp % 64)>>
    ELSE <<224 + (cp \div 4096), 128 + ((cp \div 64) % 64), 128 + (cp % 64)>>

Encode(s) == Flatten([i \in DOMAIN s |-> Utf8Char(s[i])])

IsCont(b) == b >= 128 /\ b < 192

\* bytes.decode(): UTF-8, DecodeError on a malformed sequence
Decode(b) ==
    LET n == Len(b)
        size(i) == IF b[i] < 128 THEN 1
                   ELSE IF b[i] >= 194 /\ b[i] < 224 THEN 2
                   ELSE IF b[i] >= 224 /\ b[i] < 240 THEN 3
                   ELSE 0
        lead(i) == ~IsCont(b[i])
        wellFormed(i) ==
            /\ size(i) > 0
            /\ i + size(i) - 1 <= n
            /\ \A k \in (i + 1)..(i + size(i) - 1) : IsCont(b[k])
            /\ i + size(i) <= n => lead(i + size(i))
            /\ size(i) = 3 => ((b[i] - 224) * 4096) + ((b[i + 1] - 128) * 64) >= 2048
        cp(i) == IF size(i) = 1 THEN b[i]
                 ELSE IF size(i) = 2 THEN ((b[i] - 192) * 64) + (b[i + 1] - 128)
                 ELSE ((b[i] - 224) * 4096) + ((b[i + 1] - 128) * 64) + (b[i + 2] - 128)
    IN  IF \A i \in 1..n : b[i] < 128 THEN b      \* ASCII decodes to itself
        ELSE IF ~lead(1) \/ \E i \in 1..n : lead(i) /\ ~wellFormed(i) THEN DecodeError
        ELSE Flatten([i \in 1..n |-> IF lead(i) THEN <<cp(i)>> ELSE <<>>])

\* base64.b64encode
B64Pad == 64

B64Encode(b) ==
    LET n == Len(b)
        at(i) == IF i <= n THEN b[i] ELSE 0
        sextet(g, k) ==
            IF k = 0 THEN at(g + 1) \div 4
            ELSE IF k = 1 THEN ((at(g + 1) % 4) * 16) + (at(g + 2) \div 16)
            ELSE IF k = 2 THEN IF g + 2 > n THEN B64Pad
                               ELSE ((at(g + 2) % 16) * 4) + (at(g + 3) \div 64)
            ELSE IF g + 3 > n THEN B64Pad ELSE at(g + 3) % 64
    IN  <<>> \o [i \in 1..(4 * ((n + 2) \div 3)) |-> sextet(3 * ((i - 1) \div 4), (i - 1) % 4)]

\* base64.b64decode
B64Decode(t) ==
    LET groups == Len(t) \div 4
        pads == IF groups = 0 THEN 0
                ELSE IF t[Len(t) - 1] = B64Pad THEN 2
                ELSE IF t[Len(t)] = B64Pad THEN 1
                ELSE 0
        sx(i) == IF t[i] = B64Pad THEN 0 ELSE t[i]
        byte(g, k) ==
            IF k = 0 THEN (sx(g + 1) * 4) + (sx(g + 2) \div 16)
            ELSE IF k = 1 THEN ((sx(g + 2) % 16) * 16) + (sx(g + 3) \div 4)
            ELSE ((sx(g + 3) % 4) * 64) + sx(g + 4)
    IN  <<>> \o [i \in 1..((3 * groups) - pads) |-> byte(4 * ((i - 1) \div 3), (i - 1) % 3)]

\* ------------------------------------------------------------ AESGCMCrypto

\* AESGCM.generate_key(bit_length=128): one of the random keys
KeySeeds == {1, 2}

GenerateKey(seed) == [i \in 1..KeyLen |-> ((seed * 37) + (i * 11)) % 256]

Keys == {GenerateKey(k) : k \in KeySeeds}

\* secrets.token_bytes(12): one of the random values
NonceSeeds == {1, 2}

TokenBytes(seed) == [i \in 1..NonceLen |-> ((seed * 29) + (i * 7)) % 256]

Nonces == {TokenBytes(n) : n \in NonceSeeds}

\* AESGCM(key) raises ValueError unless the key has 128, 192 or 256 bits
ValidKey(key) == key # NoKey /\ key # NoFile /\ Len(key) \in {16, 24, 32}

\* The cipher of the library: a keyed, nonce-dependent invertible transformation
\* of the bytes followed by a 16-byte tag over key, nonce and ciphertext.
KeyStream(key, nonce, i) ==
    (key[((i - 1) % Len(key)) + 1] + nonce[((i - 1) % Len(nonce)) + 1] + i) % 256

Tag(key, nonce, ct) ==
    LET sum == SumSeq(ct) + (3 * Len(ct))
    IN  [j \in 1..TagLen |->
            (sum + key[((j - 1) % Len(key)) + 1]
                 + (j * nonce[((j - 1) % Len(nonce)) + 1])) % 256]

AesGcmEncrypt(key, nonce, data) ==
    LET ct == <<>> \o [i \in DOMAIN data |-> (data[i] + KeyStream(key, nonce, i)) % 256]
    IN  ct \o Tag(key, nonce, ct)

AesGcmDecrypt(key, nonce, sealed) ==
    IF Len(sealed) < TagLen \/ nonce = <<>> THEN InvalidTag
    ELSE LET n == Len(sealed) - TagLen
             ct == SubSeq(sealed, 1, n)
         IN  IF SubSeq(sealed, n + 1, Len(sealed)) # Tag(key, nonce, ct) THEN InvalidTag
             ELSE <<>> \o [i \in 1..n |-> (ct[i] + 256 - KeyStream(key, nonce, i)) % 256]

\* AESGCMCrypto.encrypt with the nonce token_bytes returned
Encrypt(key, nonce, data) == B64Encode(nonce \o AesGcmEncrypt(key, nonce, Encode(data)))

\* Mutant of Decrypt: the blob is split one byte early, raw[:11] and raw[11:].
DecryptSplitEarly(key, b) ==
    LET raw == B64Decode(b)
        pt == AesGcmDecrypt(key, SubSeq(raw, 1, NonceLen - 1), SubSeq(raw, NonceLen, Len(raw)))
    IN  IF pt = InvalidTag THEN InvalidTag ELSE Decode(pt)

\* AESGCMCrypto.decrypt
Decrypt(key, b) ==
    LET raw == B64Decode(b)
        pt == AesGcmDecrypt(key, SubSeq(raw, 1, NonceLen), SubSeq(raw, NonceLen + 1, Len(raw)))
    IN  IF pt = InvalidTag THEN InvalidTag ELSE Decode(pt)

\* the nonce a blob carries
NonceOf(b) == SubSeq(B64Decode(b), 1, NonceLen)

\* ----------------------------------------------------------------- numbers

RECURSIVE GCD(_, _)
GCD(a, b) == IF b = 0 THEN a ELSE GCD(b, a % b)

Abs(n) == IF n < 0 THEN -n ELSE n

\* The float n / d, d # 0, in lowest terms with a positive denominator.
Frac(n, d) ==
    LET g == GCD(Abs(n), Abs(d))
    IN  IF d < 0 THEN <<(-n) \div g, (-d) \div g>> ELSE <<n \div g, d \div g>>

\* f < n / d for d > 0
Less(f, n, d) == f[1] * d < n * f[2]

FracLess(f, g) == f[1] * g[2] < g[1] * f[2]

\* ------------------------------------------------------------------ images

PanelPng == Str(<<"p", "a", "n", "e", "l", ".", "p", "n", "g">>)
WallPng == Str(<<"w", "a", "l", "l", ".", "p", "n", "g">>)
DarkPng == Str(<<"d", "a", "r", "k", ".", "p", "n", "g">>)
SkyPng == Str(<<"s", "k", "y", ".", "p", "n", "g">>)
NotesTxt == Str(<<"n", "o", "t", "e", "s", ".", "t", "x", "t">>)

Pixels == Side * Side

\* a hue histogram of the 64x64 resize with its pixels in the given bins
Hist(counts) == [i \in 1..Bins |-> IF i \in DOMAIN counts THEN counts[i] ELSE 0]

\* cv2.imread: the decoded image, None for a file that is no image.  An image
\* is kept as twice its mean gray level and the hue histogram of its resize.
ImRead(path) ==
    IF path = PanelPng THEN [gray2 |-> 459, hue |-> Hist(<<Pixels>>)]
    ELSE IF path = WallPng THEN [gray2 |-> 153, hue |-> Hist(<<Pixels \div 2, 0, Pixels \div 2>>)]
    ELSE IF path = DarkPng THEN [gray2 |-> 100, hue |-> Hist(<<0, Pixels \div 2, 0, 0, Pixels \div 2>>)]
    ELSE IF path = SkyPng THEN [gray2 |-> 510, hue |-> Hist(<<0, 0, 0, 0, 0, 0, 0, 0, 0, 0, 0, 0, Pixels>>)]
    ELSE None

\* extract_25color_vector on a decoded image: hist / (sum + 1e-6), in halves
\* (the 1e-6 is below the resolution of the model)
extract_25color_vector(img) ==
    [i \in 1..Bins |-> (2 * img.hue[i]) \div SumSeq(img.hue)]

\* ------------------------------------------------------- quantum_fire_score

Dim == 2 ^ Wires

CAdd(a, b) == <<a[1] + b[1], a[2] + b[2]>>
CMul(a, b) == <<(a[1] * b[1]) - (a[2] * b[2]), (a[1] * b[2]) + (a[2] * b[1])>>

\* bit of wire w in the basis state with index k (wire 0 is the leading bit)
Bit(k, w) == (k \div (2 ^ (Wires - 1 - w))) % 2
Flip(k, w) == IF Bit(k, w) = 0 THEN k + (2 ^ (Wires - 1 - w)) ELSE k - (2 ^ (Wires - 1 - w))

\* A device state: amp[k + 1] / sqrt(2)^s is the amplitude of basis state k.
Zero == [amp |-> [k \in 1..Dim |-> IF k = 1 THEN <<1, 0>> ELSE <<0, 0>>], s |-> 0]

AllEven(amp) == \A k \in 1..Dim : amp[k][1] % 2 = 0 /\ amp[k][2] % 2 = 0

RECURSIVE Canon(_)
Canon(st) ==
    IF st.s >= 2 /\ AllEven(st.amp)
    THEN Canon([amp |-> [k \in 1..Dim |-> <<st.amp[k][1] \div 2, st.amp[k][2] \div 2>>],
                s |-> st.s - 2])
    ELSE st

\* a one-wire gate with matrix <<m00, m01, m10, m11>> / sqrt(2)^root
Gate1(st, w, m, root) ==
    [amp |-> <<>> \o [k \in 1..Dim |->
                 IF Bit(k - 1, w) = 0
                 THEN CAdd(CMul(m[1], st.amp[k]), CMul(m[2], st.amp[Flip(k - 1, w) + 1]))
                 ELSE CAdd(CMul(m[3], st.amp[Flip(k - 1, w) + 1]), CMul(m[4], st.amp[k]))],
     s |-> st.s + root]

\* qml.RY(h/2 * pi): cos(h pi/4), -sin(h pi/4); sin(h pi/4), cos(h pi/4)
RY(st, h, w) ==
    IF h = 0 THEN st
    ELSE IF h = 1 THEN Gate1(st, w, <<<<1, 0>>, <<-1, 0>>, <<1, 0>>, <<1, 0>>>>, 1)
    ELSE Gate1(st, w, <<<<0, 0>>, <<-1, 0>>, <<1, 0>>, <<0, 0>>>>, 0)

\* qml.RX(h/2 * pi): cos(h pi/4), -i sin(h pi/4); -i sin(h pi/4), cos(h pi/4)
RX(st, h, w) ==
    IF h = 0 THEN st
    ELSE IF h = 1 THEN Gate1(st, w, <<<<1, 0>>, <<0, -1>>, <<0, -1>>, <<1, 0>>>>, 1)
    ELSE Gate1(st, w, <<<<0, 0>>, <<0, -1>>, <<0, -1>>, <<0, 0>>>>, 0)

Hadamard(st, w) == Gate1(st, w, <<<<1, 0>>, <<1, 0>>, <<1, 0>>, <<-1, 0>>>>, 1)

Toffoli(st, c1, c2, t) ==
    [st EXCEPT !.amp = <<>> \o [k \in 1..Dim |->
        IF Bit(k - 1, c1) = 1 /\ Bit(k - 1, c2) = 1 THEN st.amp[Flip(k - 1, t) + 1]
        ELSE st.amp[k]]]

CZ(st, a, b) ==
    [st EXCEPT !.amp = <<>> \o [k \in 1..Dim |->
        IF Bit(k - 1, a) = 1 /\ Bit(k - 1, b) = 1 THEN <<-st.amp[k][1], -st.amp[k][2]>>
        ELSE st.amp[k]]]

CNOT(st, c, t) ==
    [st EXCEPT !.amp = <<>> \o [k \in 1..Dim |->
        IF Bit(k - 1, c) = 1 THEN st.amp[Flip(k - 1, t) + 1] ELSE st.amp[k]]]

\* the loop of quantum_fire_score, iterations i..4
RECURSIVE Rotations(_, _, _)
Rotations(st, color_vec, i) ==
    IF i >= Layers THEN st
    ELSE LET h == color_vec[(i % Len(color_vec)) + 1]
         IN  Rotations(RX(RY(st, h, i), h, (i + 1) % Wires), color_vec, i + 1)

\* the gates of quantum_fire_score applied to a state
Circuit(st, color_vec) ==
    Hadamard(CNOT(CZ(Toffoli(Rotations(st, color_vec, 0), 0, 1, 6), 2, 3), 4, 5), 6)

\* qml.expval(qml.PauliZ(w))
ExpvalZ(st, w) ==
    LET term(k) == (IF Bit(k - 1, w) = 0 THEN 1 ELSE -1)
                     * ((st.amp[k][1] * st.amp[k][1]) + (st.amp[k][2] * st.amp[k][2]))
    IN  Frac(SumSeq([k \in 1..Dim |-> term(k)]), 2 ^ st.s)

\* Mutant of StartState: the execution goes on from the state the device holds.
StartStateKept(dev) == dev

\* The state a QNode execution starts from: the device is reset to |0..0>.
StartState(dev) == Zero

\* One call quantum_fire_score(color_vec) on the device: the score and the
\* state the device is left in.
quantum_fire_score(dev, color_vec) ==
    LET measured(st) == [score |-> ExpvalZ(st, 6), dev |-> st]
    IN  measured(Canon(Circuit(StartState(dev), color_vec)))

\* ------------------------------------------------------------- json.dumps

RECURSIVE NatText(_)
NatText(n) == IF n < 10 THEN <<48 + n>> ELSE NatText(n \div 10) \o <<48 + (n % 10)>>

IntText(n) == IF n < 0 THEN <<45>> \o NatText(-n) ELSE NatText(n)

\* A float is written as the fraction the model keeps it as.
FracText(f) == IntText(f[1]) \o <<47>> \o NatText(f[2])

Join(items, sep) == Flatten([i \in DOMAIN items |-> IF i = 1 THEN items[i] ELSE sep \o items[i]])

Comma == <<44, 32>>
JsonStr(s) == <<34>> \o s \o <<34>>
JsonList(items) == <<91>> \o Join(items, Comma) \o <<93>>
JsonObject(members) == <<123>> \o Join(members, Comma) \o <<125>>
Member(key, text) == JsonStr(key) \o <<58, 32>> \o text

\* the keys of the record and of the data it carries
KTier == Str(<<"t", "i", "e", "r">>)
KQuantumScore == Str(<<"q", "u", "a", "n", "t", "u", "m", "_", "s", "c", "o", "r", "e">>)
KBrightness == Str(<<"b", "r", "i", "g", "h", "t", "n", "e", "s", "s">>)
KVoltRatio == Str(<<"v", "o", "l", "t", "_", "r", "a", "t", "i", "o">>)
KMechvec == Str(<<"m", "e", "c", "h", "v", "e", "c">>)
KMonthsAhead == Str(<<"m", "o", "n", "t", "h", "s", "_", "a", "h", "e", "a", "d">>)
KRaw == Str(<<"r", "a", "w">>)
KBurnSmell == Str(<<"b", "u", "r", "n", "_", "s", "m", "e", "l", "l">>)
KSymptoms == Str(<<"s", "y", "m", "p", "t", "o", "m", "s">>)
KVoltages == Str(<<"v", "o", "l", "t", "a", "g", "e", "s">>)
KPhoto == Str(<<"p", "h", "o", "t", "o">>)
KArea == Str(<<"a", "r", "e", "a">>)

\* json.dumps(record) for the record fire_analysis_pipeline returns, keys in
\* insertion order; the prompt texts and the address, room and appliance
\* fields are string templates and pass-through text and are left out.
Dumps(r) ==
    JsonObject(<<
        Member(KTier, JsonStr(r.tier)),
        Member(KQuantumScore, FracText(r.quantum_score)),
        Member(KBrightness, FracText(r.brightness)),
        Member(KVoltRatio, FracText(r.volt_ratio)),
        Member(KMechvec, JsonList([i \in DOMAIN r.mechvec |-> FracText(Frac(r.mechvec[i], 2))])),
        Member(KMonthsAhead, IntText(r.months_ahead)),
        Member(KRaw, JsonObject(<<
            Member(KBurnSmell, JsonStr(r.raw.burn_smell)),
            Member(KSymptoms, JsonStr(r.raw.symptoms)),
            Member(KVoltages,
                   JsonList([i \in DOMAIN r.raw.voltages |-> IntText(r.raw.voltages[i])])),
            Member(KPhoto, JsonStr(r.raw.photo)),
            Member(KArea, JsonStr(r.raw.area))>>))>>)

\* ------------------------------------------------------ the voltage entry

IsDigit(c) == c >= 48 /\ c <= 57

\* float(x) on the texts the entry can hold here: blanks around an optional
\* sign and decimal digits; anything else raises ValueError
IsFloat(x) ==
    LET t == Strip(x)
        d == IF t # <<>> /\ t[1] = 45 THEN Tail(t) ELSE t
    IN  d # <<>> /\ \A i \in DOMAIN d : IsDigit(d[i])

RECURSIVE DigitsValue(_)
DigitsValue(d) ==
    IF d = <<>> THEN 0 ELSE (10 * DigitsValue(SubSeq(d, 1, Len(d) - 1))) + (d[Len(d)] - 48)

Float(x) ==
    LET t == Strip(x)
    IN  IF t[1] = 45 THEN -DigitsValue(Tail(t)) ELSE DigitsValue(t)

\* x for x in text.split(",") if x.strip()
Tokens(text) == SelectSeq(Split(text, 44), LAMBDA x : Strip(x) # <<>>)

\* the try block of run_scan: does [float(x) ...] raise
VoltageRaises(text) == \E i \in DOMAIN Tokens(text) : ~IsFloat(Tokens(text)[i])

Volts(text) == [i \in DOMAIN Tokens(text) |-> Float(Tokens(text)[i])]

\* ---------------------------------------------------- fire_analysis_pipeline

Yes == Str(<<"y", "e", "s">>)
No == Str(<<"n", "o">>)
Electrical == Str(<<"E", "l", "e", "c", "t", "r", "i", "c", "a", "l">>)
Overheat == Str(<<"O", "v", "e", "r", "h", "e", "a", "t">>)
Structural == Str(<<"S", "t", "r", "u", "c", "t", "u", "r", "a", "l">>)
Low == Str(<<"L", "o", "w">>)
Burn == Str(<<"b", "u", "r", "n">>)
Panel == Str(<<"p", "a", "n", "e", "l">>)
Loose == Str(<<"l", "o", "o", "s", "e">>)

\* v / voltages[0] raises ZeroDivisionError
RatioRaises(voltages) == voltages # <<>> /\ voltages[1] = 0

\* min([v / voltages[0] for v in voltages]) if voltages else 1.0
Ratio(voltages) ==
    IF voltages = <<>> THEN <<1, 1>>
    ELSE LET qs == {Frac(voltages[i], voltages[1]) : i \in DOMAIN voltages}
         IN  CHOOSE q \in qs : \A o \in qs : ~FracLess(o, q)

\* cv2.cvtColor(..., COLOR_BGR2GRAY).mean() / 255.0
Brightness(img) == Frac(img.gray2, 510)

\* cv2.cvtColor and cv2.resize raise on the None that imread returns
IsImage(path) == path \in {PanelPng, WallPng, DarkPng, SkyPng}

\* Mutant of Tier: the brightness rule is tested before the burn rule.
TierOverheatFirst(text, burn_smell, brightness, ratio) ==
    LET symptoms == Lower(text)
    IN  IF Less(brightness, 3, 10) THEN Overheat
        ELSE IF Contains(symptoms, Burn) \/ burn_smell = Yes THEN Electrical
        ELSE IF Less(ratio, 3, 4) THEN Electrical
        ELSE IF Contains(symptoms, Panel) \/ Contains(symptoms, Loose) THEN Structural
        ELSE Low

\* the if / elif chain of fire_analysis_pipeline
Tier(text, burn_smell, brightness, ratio) ==
    LET symptoms == Lower(text)
    IN  IF Contains(symptoms, Burn) \/ burn_smell = Yes THEN Electrical
        ELSE IF Less(brightness, 3, 10) THEN Overheat
        ELSE IF Less(ratio, 3, 4) THEN Electrical
        ELSE IF Contains(symptoms, Panel) \/ Contains(symptoms, Loose) THEN Structural
        ELSE Low

\* fire_analysis_pipeline(data, forecast_months) with the device it scores on:
\* raised is TRUE when a stage raises, and no record is built then.
fire_analysis_pipeline(dev, data, forecast_months) ==
    IF RatioRaises(data.voltages) \/ ~IsImage(data.photo) \/ ~IsImage(data.area)
    THEN [raised |-> TRUE, result |-> <<>>, dev |-> dev]
    ELSE LET ratio == Ratio(data.voltages)
             brightness == Brightness(ImRead(data.photo))
             vector == extract_25color_vector(ImRead(data.area))
             record(q) ==
                 [raised |-> FALSE,
                  result |-> <<[tier |-> Tier(data.symptoms, data.burn_smell, brightness, ratio),
                                quantum_score |-> q.score,
                                brightness |-> brightness,
                                volt_ratio |-> ratio,
                                mechvec |-> vector,
                                months_ahead |-> forecast_months,
                                raw |-> data]>>,
                  dev |-> q.dev]
         IN  record(quantum_fire_score(dev, vector))

\* ------------------------------------------------------------- the inputs

\* what the file dialog can return: a path, or "" when it is cancelled
Files == {PanelPng, NotesTxt}

\* what the voltage entry can hold
VoltageTexts ==
    {<<>>,
     Str(<<"1", "2", "0", ",", " ", "9", "0", ",", "6", "0">>),
     Str(<<"0", ",", "1", "2", "0">>),
     Str(<<"1", "2", "v">>)}

\* what the symptoms box can hold
SymptomTexts == {Str(<<" ", "L", "o", "o", "s", "e", " ", "p", "a", "n", "e", "l", " ">>)}

BurnChoices == {No}
MonthChoices == {1}

\* ----------------------------------------------------- AESGCMCrypto.__init__

\* Mutant of KeyFileAfter: the exists check is dropped and a key is always written.
KeyFileRegenerated(file, seed) == GenerateKey(seed)

\* Lines 21-24 run without interruption on a key file: the file afterwards.
KeyFileAfter(file, seed) == IF file = NoFile THEN GenerateKey(seed) ELSE file

\* ----------------------------------------------------------- EncryptedDB.log

\* Mutant of Insert: INSERT OR REPLACE on a fixed id, so the table keeps one row.
InsertOverwrites(table, b) == <<[id |-> 1, blob |-> b]>>

\* INSERT INTO logs (ts, blob): one more row, with the next id.  The ts column
\* is the wall-clock reading; nothing reads it and it is not kept.
Insert(table, b) == Append(table, [id |-> Len(table) + 1, blob |-> b])

\* ------------------------------------------------------------------ handlers

Quiet(op) == [op |-> op, status |-> "", voltage |-> <<>>, invoked |-> FALSE,
              generated |-> FALSE, result |-> <<>>]

\* FireAIApp.__init__ in a new process: the cipher (and with it the key file),
\* the table, the empty form.
AppInit ==
    /\ crypto = NoKey
    /\ \E seed \in KeySeeds :
        /\ keyFile' = KeyFileAfter(keyFile, seed)
        /\ crypto' = keyFile'
    /\ photo' = None
    /\ area' = None
    /\ output' = <<>>
    /\ qml_dev' = Zero
    /\ event' = [Quiet("init") EXCEPT !.generated = (keyFile = NoFile)]
    /\ UNCHANGED <<rows, returned>>
    /\ UNCHANGED notApp

\* The window is closed and the process ends; the key file and the database stay.
Exit ==
    /\ crypto # NoKey
    /\ crypto' = NoKey
    /\ photo' = None
    /\ area' = None
    /\ output' = <<>>
    /\ qml_dev' = Zero
    /\ event' = Quiet("exit")
    /\ UNCHANGED <<keyFile, rows, returned>>
    /\ UNCHANGED notApp

load_photo ==
    /\ crypto # NoKey
    /\ \E path \in Files \cup {<<>>} :
        photo' = IF path # <<>> THEN path ELSE photo
    /\ event' = Quiet("load_photo")
    /\ UNCHANGED <<keyFile, crypto, area, rows, output, qml_dev, returned>>
    /\ UNCHANGED notApp

load_area ==
    /\ crypto # NoKey
    /\ \E path \in Files \cup {<<>>} :
        area' = IF path # <<>> THEN path ELSE area
    /\ event' = Quiet("load_area")
    /\ UNCHANGED <<keyFile, crypto, photo, rows, output, qml_dev, returned>>
    /\ UNCHANGED notApp

\* Mutant of Shown: output.delete runs before the pipeline is called.
ShownCleared(before, raised, result) == IF raised THEN <<>> ELSE result

\* what the output widget shows after run_scan: the delete and the insert of
\* lines 222-223 are reached only when neither the pipeline nor log raised
Shown(before, raised, result) == IF raised THEN before ELSE result

\* run_scan with the form as the user left it.  EncryptedDB.log draws its
\* nonce, and its INSERT either completes or raises (disk full, database locked).
run_scan ==
    /\ crypto # NoKey
    /\ Len(rows) < MaxRows
    /\ \E text \in VoltageTexts, sym \in SymptomTexts, burn \in BurnChoices,
          months \in MonthChoices :
        LET scan == [Quiet("run_scan") EXCEPT !.voltage = text] IN
        IF VoltageRaises(text)
        THEN /\ event' = [scan EXCEPT !.status = "Invalid voltage input."]
             /\ UNCHANGED <<rows, output, qml_dev, returned>>
        ELSE IF photo = None \/ area = None
        THEN /\ event' = [scan EXCEPT !.status = "Images required."]
             /\ UNCHANGED <<rows, output, qml_dev, returned>>
        ELSE \E run \in {fire_analysis_pipeline(qml_dev,
                              [burn_smell |-> burn, symptoms |-> Strip(sym),
                               voltages |-> Volts(text), photo |-> photo, area |-> area],
                              months)} :
             /\ qml_dev' = run.dev
             /\ IF run.raised
                THEN /\ event' = [scan EXCEPT !.status = "pipeline raised", !.invoked = TRUE]
                     /\ output' = Shown(output, TRUE, run.result)
                     /\ UNCHANGED <<rows, returned>>
                ELSE \/ /\ event' = [scan EXCEPT !.status = "log raised", !.invoked = TRUE,
                                                 !.result = run.result]
                        /\ output' = Shown(output, TRUE, run.result)
                        /\ UNCHANGED <<rows, returned>>
                     \/ \E text2 \in {Dumps(run.result[1])}, nonce \in Nonces :
                        /\ event' = [scan EXCEPT !.status = "ok", !.invoked = TRUE,
                                                 !.result = run.result]
                        /\ rows' = Insert(rows, Encrypt(crypto, nonce, text2))
                        /\ output' = Shown(output, FALSE, run.result)
                        /\ returned' = Append(returned, run.result[1])
    /\ UNCHANGED <<keyFile, crypto, photo, area>>
    /\ UNCHANGED notApp

Idle == [done |-> FALSE, text |-> <<>>, out |-> <<>>, enc |-> 0, dec |-> 0]

Init ==
    /\ keyFile = NoFile
    /\ crypto = NoKey
    /\ photo = None
    /\ area = None
    /\ rows = <<>>
    /\ output = <<>>
    /\ qml_dev = Zero
    /\ event = Quiet("import")
    /\ returned = <<>>
    /\ pc = <<>>
    /\ inst = <<>>
    /\ fresh = <<>>
    /\ blob = <<>>
    /\ plain = Idle
    /\ cin = <<>>
    /\ ctier = <<>>
    /\ scores = <<>>

Next == AppInit \/ Exit \/ load_photo \/ load_area \/ run_scan

Spec == Init /\ [][Next]_vars

\* ------------------------------- AESGCMCrypto.__init__, two processes at once

Procs == {1, 2}

Start == [p \in Procs |-> "makedirs"]
Nobody == [p \in Procs |-> NoKey]

Goto(p, label) == pc' = [pc EXCEPT ![p] = label]

notConc == <<crypto, photo, area, rows, output, qml_dev, event, returned,
             blob, plain, cin, ctier, scores>>

\* line 20: os.makedirs(..., exist_ok=True)
MakeDirs(p) ==
    /\ pc[p] = "makedirs"
    /\ Goto(p, "exists")
    /\ UNCHANGED <<keyFile, inst, fresh>>
    /\ UNCHANGED notConc

\* line 21: if not os.path.exists(key_path)
Exists(p) ==
    /\ pc[p] = "exists"
    /\ Goto(p, IF keyFile = NoFile THEN "open" ELSE "read")
    /\ UNCHANGED <<keyFile, inst, fresh>>
    /\ UNCHANGED notConc

\* line 22: open(key_path, "wb") creates the file, or truncates the one there
OpenWb(p) ==
    /\ pc[p] = "open"
    /\ keyFile' = <<>>
    /\ Goto(p, "write")
    /\ UNCHANGED <<inst, fresh>>
    /\ UNCHANGED notConc

\* line 23 and the end of the with block: the generated key reaches the file
WriteKey(p) ==
    /\ pc[p] = "write"
    /\ \E seed \in KeySeeds :
        /\ fresh' = [fresh EXCEPT ![p] = GenerateKey(seed)]
        /\ keyFile' = GenerateKey(seed)
    /\ Goto(p, "read")
    /\ UNCHANGED inst
    /\ UNCHANGED notConc

\* line 24: self.key = open(key_path, "rb").read()
ReadKey(p) ==
    /\ pc[p] = "read"
    /\ inst' = [inst EXCEPT ![p] = keyFile]
    /\ Goto(p, "aesgcm")
    /\ UNCHANGED <<keyFile, fresh>>
    /\ UNCHANGED notConc

\* line 25: AESGCM(self.key), which raises on a key of another length
NewAesGcm(p) ==
    /\ pc[p] = "aesgcm"
    /\ Goto(p, IF ValidKey(inst[p]) THEN "done" ELSE "raised")
    /\ UNCHANGED <<keyFile, inst, fresh>>
    /\ UNCHANGED notConc

InitConc ==
    /\ keyFile = NoFile
    /\ pc = Start
    /\ inst = Nobody
    /\ fresh = Nobody
    /\ crypto = NoKey /\ photo = None /\ area = None /\ rows = <<>> /\ output = <<>>
    /\ qml_dev = Zero /\ event = Quiet("import") /\ returned = <<>>
    /\ blob = <<>> /\ plain = Idle /\ cin = <<>> /\ ctier = <<>> /\ scores = <<>>

NextConc ==
    \E p \in Procs :
        \/ MakeDirs(p)
        \/ Exists(p)
        \/ OpenWb(p)
        \/ WriteKey(p)
        \/ ReadKey(p)
        \/ NewAesGcm(p)

SpecConc == InitConc /\ [][NextConc]_vars

\* ------------------------------------- encrypt and decrypt on two instances

Texts ==
    {<<>>,
     Str(<<"a">>),
     Str(<<"o", "k">>),
     Str(<<"F", "i", "r", "e", "!">>),
     <<233>>,
     <<8364, 49, 48>>,
     Str(<<"{", "}">>) \o <<34, 233, 34>>}

notCipher == <<crypto, photo, area, rows, output, qml_dev, event, returned,
               pc, fresh, cin, ctier, scores>>

\* AESGCMCrypto(key_path) by one constructor at a time
Construct(i) ==
    /\ inst[i] = NoKey
    /\ \E seed \in KeySeeds :
        /\ keyFile' = KeyFileAfter(keyFile, seed)
        /\ inst' = [inst EXCEPT ![i] = keyFile']
    /\ UNCHANGED <<blob, plain>>
    /\ UNCHANGED notCipher

EncryptCall(i) ==
    /\ inst[i] # NoKey
    /\ \E data \in Texts, nonce \in Nonces :
        /\ blob' = Encrypt(inst[i], nonce, data)
        /\ plain' = [done |-> FALSE, text |-> data, out |-> <<>>, enc |-> i, dec |-> 0]
    /\ UNCHANGED <<keyFile, inst>>
    /\ UNCHANGED notCipher

DecryptCall(j) ==
    /\ inst[j] # NoKey
    /\ plain.enc # 0
    /\ plain' = [plain EXCEPT !.done = TRUE, !.out = Decrypt(inst[j], blob), !.dec = j]
    /\ UNCHANGED <<keyFile, inst, blob>>
    /\ UNCHANGED notCipher

InitCipher ==
    /\ keyFile = NoFile
    /\ inst = Nobody
    /\ blob = <<>>
    /\ plain = Idle
    /\ pc = <<>> /\ fresh = <<>>
    /\ crypto = NoKey /\ photo = None /\ area = None /\ rows = <<>> /\ output = <<>>
    /\ qml_dev = Zero /\ event = Quiet("import") /\ returned = <<>>
    /\ cin = <<>> /\ ctier = <<>> /\ scores = <<>>

NextCipher ==
    \E i \in Procs :
        \/ Construct(i)
        \/ EncryptCall(i)
        \/ DecryptCall(i)

SpecCipher == InitCipher /\ [][NextCipher]_vars

\* --------------------------------------------------------- the tier, alone

TierSymptoms ==
    {<<>>,
     Str(<<"b", "u", "r", "n">>),
     Str(<<"B", "U", "R", "N", "T", " ", "p", "a", "n", "e", "l">>),
     Str(<<"p", "a", "n", "e", "l">>),
     Str(<<"P", "a", "n", "e", "l">>),
     Str(<<"a", " ", "l", "o", "o", "s", "e", " ", "l", "i", "d">>),
     Str(<<"L", "O", "O", "S", "E">>),
     Str(<<"h", "u", "m", "s">>)}

TierGrays == {0, 100, 152, 153, 459, 510}

TierVoltages == {<<>>, <<120, 90, 60>>, <<20, 19>>, <<4, 3>>, <<100, 74, 80>>, <<-4, -2, 3>>}

notClass == <<keyFile, crypto, photo, area, rows, output, qml_dev, event, returned,
              pc, inst, fresh, blob, plain, scores>>

Classify ==
    /\ ctier = <<>>
    /\ ctier' = <<Tier(cin.symptoms, cin.burn_smell, Brightness([gray2 |-> cin.gray2]),
                       Ratio(cin.voltages))>>
    /\ UNCHANGED cin
    /\ UNCHANGED notClass

InitClassify ==
    /\ cin \in [symptoms : TierSymptoms, burn_smell : {Yes, No}, gray2 : TierGrays,
                voltages : TierVoltages]
    /\ ctier = <<>>
    /\ keyFile = NoFile /\ pc = <<>> /\ inst = <<>> /\ fresh = <<>>
    /\ crypto = NoKey /\ photo = None /\ area = None /\ rows = <<>> /\ output = <<>>
    /\ qml_dev = Zero /\ event = Quiet("import") /\ returned = <<>>
    /\ blob = <<>> /\ plain = Idle /\ scores = <<>>

NextClassify == Classify

SpecClassify == InitClassify /\ [][NextClassify]_vars

\* -------------------------------------------------------- the scorer, alone

ScoreImages == {PanelPng, WallPng, DarkPng, SkyPng}

notScore == <<keyFile, crypto, photo, area, rows, output, event, returned,
              pc, inst, fresh, blob, plain, cin, ctier>>

\* one call quantum_fire_score(extract_25color_vector(path))
ScoreCall ==
    /\ Len(scores) < MaxCalls
    /\ \E path \in ScoreImages :
        \E run \in {quantum_fire_score(qml_dev, extract_25color_vector(ImRead(path)))} :
            /\ qml_dev' = run.dev
            /\ scores' = Append(scores, <<extract_25color_vector(ImRead(path)), run.score>>)
    /\ UNCHANGED notScore

\* the process ends and another imports the module: a new device
NewProcess ==
    /\ qml_dev # Zero
    /\ qml_dev' = Zero
    /\ UNCHANGED scores
    /\ UNCHANGED notScore

InitScore ==
    /\ qml_dev = Zero
    /\ scores = <<>>
    /\ keyFile = NoFile /\ pc = <<>> /\ inst = <<>> /\ fresh = <<>>
    /\ crypto = NoKey /\ photo = None /\ area = None /\ rows = <<>> /\ output = <<>>
    /\ event = Quiet("import") /\ returned = <<>>
    /\ blob = <<>> /\ plain = Idle /\ cin = <<>> /\ ctier = <<>>

NextScore ==
    \/ ScoreCall
    \/ NewProcess

SpecScore == InitScore /\ [][NextScore]_vars

\* ------------------------------------------------------------------- claims

\* C1 (Spec).  The logs table holds one row per completed run: row i decrypts,
\* under the key of the key file, to the JSON text of the record run i
\* returned; a completed run adds exactly one row, and no step changes or
\* removes a row that is there.
AuditRowsMatch ==
    /\ Len(rows) = Len(returned)
    /\ \A i \in DOMAIN rows :
        /\ rows[i].id = i
        /\ Decrypt(keyFile, rows[i].blob) = Dumps(returned[i])

AuditAppendOnly ==
    /\ Len(rows') >= Len(rows)
    /\ SubSeq(rows', 1, Len(rows)) = rows
    /\ (event'.op = "run_scan" /\ event'.status = "ok" /\ event' # event)
          => Len(rows') = Len(rows) + 1
    /\ returned' # returned => Len(rows') = Len(rows) + 1

AuditGrowth == [] AuditRowsMatch /\ [][AuditAppendOnly]_vars

AuditGrowthWitness ==
    /\ Len(rows) >= 2
    /\ returned[1] # returned[2]
    /\ crypto = NoKey

\* C2 (Spec).  A construction on a path with no file writes a 16-byte key and
\* holds it; a construction on a path with a file holds the bytes of the file;
\* and no step changes a key file that exists.
KeyPersistenceStep ==
    /\ keyFile # NoFile => keyFile' = keyFile
    /\ (crypto = NoKey /\ crypto' # NoKey) =>
          /\ crypto' = keyFile'
          /\ Len(keyFile') = KeyLen
          /\ event'.generated <=> keyFile = NoFile

KeyPersistence == [][KeyPersistenceStep]_vars

KeyPersistenceWitness ==
    /\ event.op = "init"
    /\ ~event.generated
    /\ crypto = keyFile
    /\ rows # <<>>

\* C3 (SpecConc).  Once both concurrent constructors have ended, at most one of
\* them generated a key and both hold the complete key that is in the file.
AtomicKeyCreation ==
    (\A p \in Procs : pc[p] \in {"done", "raised"}) =>
        /\ Cardinality({p \in Procs : fresh[p] # NoKey}) <= 1
        /\ \A p \in Procs : pc[p] = "done" /\ inst[p] = keyFile /\ Len(inst[p]) = KeyLen

\* C4 (SpecClassify).  The decision list of the claim, first match first.
FirstMatch(rules) ==
    rules[CHOOSE i \in DOMAIN rules : rules[i][1] /\ \A j \in 1..(i - 1) : ~rules[j][1]][2]

SpecCase1 == cin.burn_smell = Yes /\ Ratio(cin.voltages) = <<1, 2>>
SpecCase2 ==
    /\ cin.symptoms = <<>> /\ cin.burn_smell = No
    /\ cin.gray2 = 459 /\ Ratio(cin.voltages) = <<19, 20>>

\* As the claim words it: "panel" and "loose" are looked for in the text as given.
TierDecisionListAsWritten ==
    ctier # <<>> =>
        /\ ctier[1] = FirstMatch(<<
              <<Contains(Lower(cin.symptoms), Burn) \/ cin.burn_smell = Yes, Electrical>>,
              <<cin.gray2 * 10 < 3 * 510, Overheat>>,
              <<FracLess(Ratio(cin.voltages), <<3, 4>>), Electrical>>,
              <<Contains(cin.symptoms, Panel) \/ Contains(cin.symptoms, Loose), Structural>>,
              <<TRUE, Low>> >>)
        /\ SpecCase1 => ctier[1] = Electrical
        /\ SpecCase2 => ctier[1] = Low

\* Amended: "panel" and "loose" are matched case-insensitively too.
TierDecisionList ==
    ctier # <<>> =>
        /\ ctier[1] = FirstMatch(<<
              <<Contains(Lower(cin.symptoms), Burn) \/ cin.burn_smell = Yes, Electrical>>,
              <<cin.gray2 * 10 < 3 * 510, Overheat>>,
              <<FracLess(Ratio(cin.voltages), <<3, 4>>), Electrical>>,
              <<Contains(Lower(cin.symptoms), Panel) \/ Contains(Lower(cin.symptoms), Loose),
                Structural>>,
              <<TRUE, Low>> >>)
        /\ SpecCase1 => ctier[1] = Electrical
        /\ SpecCase2 => ctier[1] = Low

TierDecisionListWitness ==
    /\ ctier = <<Structural>>
    /\ ~Contains(cin.symptoms, Panel)
    /\ ~Contains(cin.symptoms, Loose)

\* C5 (Spec).  When EncryptedDB.log raised after the pipeline had computed a
\* result, the output shows that result.
LogFailureStillDelivers ==
    (event.op = "run_scan" /\ event.status = "log raised") => output = event.result

\* C6 (SpecCipher).  The blob of an encrypt is the base64 of the 12-byte nonce
\* drawn, the ciphertext and the 16-byte tag, and what any instance built from
\* the key file decrypts from it is the text that was encrypted.
RoundTrip ==
    /\ plain.enc # 0 =>
          /\ NonceOf(blob) \in Nonces
          /\ Len(B64Decode(blob)) = NonceLen + Len(Encode(plain.text)) + TagLen
          /\ B64Encode(B64Decode(blob)) = blob
    /\ plain.done => plain.out = plain.text

RoundTripWitness ==
    /\ plain.done
    /\ plain.enc # plain.dec
    /\ \E k \in DOMAIN plain.text : plain.text[k] > 127
    /\ plain.out = plain.text

\* C7 (Spec).  No two rows written under the key carry the same nonce.
NoNonceReuse ==
    \A i, j \in DOMAIN rows : i # j => NonceOf(rows[i].blob) # NonceOf(rows[j].blob)

\* C8 (Spec).  run_scan does not call the pipeline on a non-numeric voltage
\* text, a missing image reference, or a voltage list whose first element is 0.
Malformed(text, p, a) ==
    \/ VoltageRaises(text)
    \/ p = None
    \/ a = None
    \/ RatioRaises(Volts(text))

MalformedRejectedBeforePipeline ==
    (event.op = "run_scan" /\ Malformed(event.voltage, photo, area)) => ~event.invoked

\* C9 (Spec).  A run_scan whose pipeline raised leaves the rows and the output
\* as they were and yields no result.
FailFastStep ==
    (event'.op = "run_scan" /\ event'.status = "pipeline raised") =>
        /\ rows' = rows
        /\ output' = output
        /\ returned' = returned
        /\ event'.result = <<>>

FailFastUnchanged == [][FailFastStep]_vars

FailFastWitness ==
    /\ event.op = "run_scan"
    /\ event.status = "pipeline raised"
    /\ output # <<>>
    /\ rows # <<>>

====
